---- MODULE Spec2Model ----
(***************************************************************************)
(* A model of fastf1/events.py: the event schedule of a season, the lookup *)
(* of an event by round or by (fuzzy) name, and the resolution of session  *)
(* identifiers on an event.                                                *)
(*                                                                         *)
(* Text values are TLA+ strings; a character is a string of length one.    *)
(***************************************************************************)
EXTENDS Integers, Sequences, FiniteSets, TLC

(***************************************************************************)
(* Text helpers: str.casefold, str.upper, str.replace, str(int).           *)
(***************************************************************************)
UpperChars == "ABCDEFGHIJKLMNOPQRSTUVWXYZ"
LowerChars == "abcdefghijklmnopqrstuvwxyz"
DigitChars == "0123456789"

CharAt(s, i) == SubSeq(s, i, i)

Rest(s) == SubSeq(s, 2, Len(s))

\* position of the character c in the alphabet string abc, 0 if absent
IndexIn(abc, c) ==
  IF \E i \in 1..Len(abc) : CharAt(abc, i) = c
  THEN CHOOSE i \in 1..Len(abc) : CharAt(abc, i) = c
  ELSE 0

Max(S) == CHOOSE m \in S : \A n \in S : n <= m

Min(S) == CHOOSE m \in S : \A n \in S : m <= n

ToLower ==
  [c \in {CharAt(UpperChars, i) : i \in 1..Len(UpperChars)} |->
     CharAt(LowerChars, IndexIn(UpperChars, c))]

ToUpper ==
  [c \in {CharAt(LowerChars, i) : i \in 1..Len(LowerChars)} |->
     CharAt(UpperChars, IndexIn(LowerChars, c))]

FoldChar(c) == IF c \in DOMAIN ToLower THEN ToLower[c] ELSE c

UpChar(c) == IF c \in DOMAIN ToUpper THEN ToUpper[c] ELSE c

RECURSIVE casefold(_)
casefold(s) ==
  IF s = "" THEN "" ELSE FoldChar(CharAt(s, 1)) \o casefold(Rest(s))

RECURSIVE upper(_)
upper(s) ==
  IF s = "" THEN "" ELSE UpChar(CharAt(s, 1)) \o upper(Rest(s))

\* s.replace(old, ""): every non-overlapping occurrence of old, left to right
RECURSIVE replace(_, _)
replace(s, old) ==
  IF Len(s) < Len(old) \/ old = "" THEN s
  ELSE IF SubSeq(s, 1, Len(old)) = old
       THEN replace(SubSeq(s, Len(old) + 1, Len(s)), old)
       ELSE CharAt(s, 1) \o replace(Rest(s), old)

\* str(n) for n >= 0
RECURSIVE str(_)
str(n) ==
  IF n < 10 THEN CharAt(DigitChars, n + 1)
  ELSE str(n \div 10) \o CharAt(DigitChars, (n % 10) + 1)

(***************************************************************************)
(* fuzz.ratio(s1, s2): 100 for equal strings, 0 when one is empty, else    *)
(* the rounded percentage 2*M/T of the pure-python SequenceMatcher, where  *)
(* M counts the characters of the matching blocks: the longest common      *)
(* block (earliest in s1, then earliest in s2), then the same to its left  *)
(* and to its right.                                                       *)
(***************************************************************************)
RECURSIVE CommonPrefix(_, _, _, _)
CommonPrefix(a, i, b, j) ==
  IF i > Len(a) \/ j > Len(b) THEN 0
  ELSE IF CharAt(a, i) # CharAt(b, j) THEN 0
  ELSE 1 + CommonPrefix(a, i + 1, b, j + 1)

find_longest_match(a, b) ==
  LET pairs == (1..Len(a)) \X (1..Len(b))
      size == [p \in pairs |-> CommonPrefix(a, p[1], b, p[2])]
      k == Max({size[p] : p \in pairs})
      i == Min({p[1] : p \in {q \in pairs : size[q] = k}})
      j == Min({p[2] : p \in {q \in pairs : size[q] = k /\ q[1] = i}})
  IN [i |-> i, j |-> j, size |-> k]

\* the characters matched in a and b around the longest block m
RECURSIVE matches(_, _)
around(a, b, m) ==
  IF m.size = 0 THEN 0
  ELSE m.size
       + matches(SubSeq(a, 1, m.i - 1), SubSeq(b, 1, m.j - 1))
       + matches(SubSeq(a, m.i + m.size, Len(a)),
                 SubSeq(b, m.j + m.size, Len(b)))

matches(a, b) ==
  IF a = "" \/ b = "" THEN 0 ELSE around(a, b, find_longest_match(a, b))

\* int(round(100 * 2.0 * m / t)), round half to even
intr(m, t) ==
  LET q == (200 * m) \div t
      r == (200 * m) % t
  IN IF 2 * r < t THEN q
     ELSE IF 2 * r > t THEN q + 1
     ELSE IF q % 2 = 0 THEN q ELSE q + 1

ratio(s1, s2) ==
  IF s1 = s2 THEN 100
  ELSE IF s1 = "" \/ s2 = "" THEN 0
  ELSE intr(matches(s1, s2), Len(s1) + Len(s2))

(***************************************************************************)
(* Outcomes of a call: a returned value or a raised error.                 *)
(***************************************************************************)
Ok(v) == [status |-> "ok", error |-> "", value |-> <<v>>]

Err(e) == [status |-> "error", error |-> e, value |-> <<>>]

\* the errors that are raised as ValueError, by message
ValueErrors ==
  { "Invalid round", "Cannot get testing event by round number!",
    "Test event number does not exist", "Invalid session type",
    "No session of type for this event",
    "Session number does not exist for this event",
    "Session type does not exist for this event" }

(***************************************************************************)
(* Date-times: seconds since 1970-01-01T00:00:00 (wall clock), or NaT.     *)
(***************************************************************************)
NaT == -1

Day == 86400

\* Timestamp.floor('D'); NaT stays NaT
\* floor_D, were the time of day kept
floor_D_kept(t) == t

floor_D(t) == IF t = NaT THEN NaT ELSE t - (t % Day)

\* Timestamp - pd.Timedelta(days=n); NaT stays NaT
minus_days(t, n) == IF t = NaT THEN NaT ELSE t - n * Day

(***************************************************************************)
(* An event: one row of the schedule (EventSchedule._COLS_TYPES).          *)
(***************************************************************************)
Row(rnd, country, location, official, date, name, format, s, d, api) ==
  [ round_number |-> rnd, country |-> country, location |-> location,
    official_event_name |-> official, event_date |-> date,
    event_name |-> name, event_format |-> format,
    session1 |-> s[1], session1_date |-> d[1],
    session2 |-> s[2], session2_date |-> d[2],
    session3 |-> s[3], session3_date |-> d[3],
    session4 |-> s[4], session4_date |-> d[4],
    session5 |-> s[5], session5_date |-> d[5],
    f1_api_support |-> api ]

\* self[f'session{num}'] and self[f'session{num}_date']
session(ev, num) ==
  CASE num = 1 -> ev.session1 [] num = 2 -> ev.session2
    [] num = 3 -> ev.session3 [] num = 4 -> ev.session4
    [] num = 5 -> ev.session5

session_date(ev, num) ==
  CASE num = 1 -> ev.session1_date [] num = 2 -> ev.session2_date
    [] num = 3 -> ev.session3_date [] num = 4 -> ev.session4_date
    [] num = 5 -> ev.session5_date

\* the text values among self.values (no text equals a number, a date or a
\* boolean, so only these can equal a session name)
text_values(ev) ==
  { ev.country, ev.location, ev.official_event_name, ev.event_name,
    ev.event_format, ev.session1, ev.session2, ev.session3, ev.session4,
    ev.session5 }

(***************************************************************************)
(* An event schedule: the rows in table order, each with its index label,  *)
(* and the season's year.  A new table is labelled 0, 1, 2, ...; a         *)
(* selection of rows keeps the labels.                                     *)
(***************************************************************************)
EventSchedule(rows, year) ==
  [year |-> year, index |-> [i \in 1..Len(rows) |-> i - 1], data |-> rows]

\* self['event_format'] == 'testing', per row
is_testing(self) ==
  [i \in 1..Len(self.data) |-> self.data[i].event_format = "testing"]

\* negate, were the mask left as it is
negate_kept(mask) == mask

negate(mask) == [i \in DOMAIN mask |-> ~mask[i]]

RECURSIVE positions(_, _)
positions(mask, i) ==
  IF i > Len(mask) THEN <<>>
  ELSE (IF mask[i] THEN <<i>> ELSE <<>>) \o positions(mask, i + 1)

\* self[mask]: the rows where mask holds, in order, with their labels
select(self, mask) ==
  LET keep == positions(mask, 1)
  IN [year |-> self.year,
      index |-> [k \in 1..Len(keep) |-> self.index[keep[k]]],
      data |-> [k \in 1..Len(keep) |-> self.data[keep[k]]]]

\* self.iloc[pos]: by position, 0-based, negative positions from the end
iloc(self, pos) ==
  LET n == Len(self.data)
  IN IF 0 <= pos /\ pos < n THEN Ok(self.data[pos + 1])
     ELSE IF pos < 0 /\ -pos <= n THEN Ok(self.data[n + pos + 1])
     ELSE Err("IndexError")

\* self.loc[label]: by index label
loc(self, label) ==
  IF \E i \in 1..Len(self.index) : self.index[i] = label
  THEN Ok(self.data[CHOOSE i \in 1..Len(self.index) : self.index[i] = label])
  ELSE Err("KeyError")

\* get_event_by_round, were it to take the last of the matching rows
get_event_by_round_last(self, round) ==
  LET mask == [i \in 1..Len(self.data) |-> self.data[i].round_number = round]
  IN IF ~(\E i \in DOMAIN mask : mask[i]) THEN Err("Invalid round")
     ELSE iloc(select(self, mask), 0 - 1)

get_event_by_round(self, round) ==
  LET mask == [i \in 1..Len(self.data) |-> self.data[i].round_number = round]
  IN IF ~(\E i \in DOMAIN mask : mask[i]) THEN Err("Invalid round")
     ELSE iloc(select(self, mask), 0)

\* the strings an event is compared by
_matcher_strings(self, ev) ==
  << ev.location,
     ev.country,
     replace(ev.event_name, "Grand Prix"),
     replace(replace(replace(ev.official_event_name, "FORMULA 1"),
                     str(self.year)), "GRAND PRIX") >>

event_ratio(self, ev, name) ==
  LET strings == _matcher_strings(self, ev)
      ratios == [k \in 1..4 |-> ratio(casefold(strings[k]), casefold(name))]
  IN Max({ratios[k] : k \in 1..4})

\* the loop of get_event_by_name from row i on, with the best so far
RECURSIVE best_match(_, _, _, _, _)
step(self, name, i, max_ratio, index, r) ==
  IF r > max_ratio
  THEN best_match(self, name, i + 1, r, self.index[i])
  ELSE best_match(self, name, i + 1, max_ratio, index)

best_match(self, name, i, max_ratio, index) ==
  IF i > Len(self.data) THEN index
  ELSE step(self, name, i, max_ratio, index,
            event_ratio(self, self.data[i], name))

get_event_by_name(self, name) == loc(self, best_match(self, name, 1, 0, 0))

(***************************************************************************)
(* pd.to_datetime of "<date>T<time>", then tz_localize(None): the wall     *)
(* clock date-time of an ISO date with an optional time of day and an      *)
(* optional trailing Z; any other text raises ParserError.                 *)
(***************************************************************************)
is_digits(s) ==
  s # "" /\ \A i \in 1..Len(s) : IndexIn(DigitChars, CharAt(s, i)) # 0

RECURSIVE to_int(_)
to_int(s) ==
  IF s = "" THEN 0
  ELSE 10 * to_int(SubSeq(s, 1, Len(s) - 1))
       + (IndexIn(DigitChars, CharAt(s, Len(s))) - 1)

is_leap(y) == (y % 4 = 0 /\ y % 100 # 0) \/ y % 400 = 0

days_in_month(y, m) ==
  IF m = 2 THEN (IF is_leap(y) THEN 29 ELSE 28)
  ELSE IF m \in {4, 6, 9, 11} THEN 30 ELSE 31

\* days from 1970-01-01 to the civil date y-m-d
days_from_civil(y, m, d) ==
  LET yy == IF m <= 2 THEN y - 1 ELSE y
      era == yy \div 400
      yoe == yy - era * 400
      mp == IF m > 2 THEN m - 3 ELSE m + 9
      doy == (153 * mp + 2) \div 5 + d - 1
      doe == yoe * 365 + yoe \div 4 - yoe \div 100 + doy
  IN era * 146097 + doe - 719468

\* the time of day "HH:MM:SS", in seconds
hms(t) ==
  IF /\ Len(t) = 8 /\ CharAt(t, 3) = ":" /\ CharAt(t, 6) = ":"
     /\ is_digits(SubSeq(t, 1, 2)) /\ to_int(SubSeq(t, 1, 2)) <= 23
     /\ is_digits(SubSeq(t, 4, 5)) /\ to_int(SubSeq(t, 4, 5)) <= 59
     /\ is_digits(SubSeq(t, 7, 8)) /\ to_int(SubSeq(t, 7, 8)) <= 59
  THEN Ok(to_int(SubSeq(t, 1, 2)) * 3600 + to_int(SubSeq(t, 4, 5)) * 60
          + to_int(SubSeq(t, 7, 8)))
  ELSE Err("ParserError")

parse_time(s) ==
  IF s = "" THEN Ok(0)
  ELSE IF CharAt(s, Len(s)) = "Z" THEN hms(SubSeq(s, 1, Len(s) - 1))
  ELSE hms(s)

\* the date-time of the year y, month m, day d and the parsed time of day
civil(y, m, d, time) ==
  IF m \in 1..12 /\ d \in 1..days_in_month(y, m) /\ time.status = "ok"
  THEN Ok(days_from_civil(y, m, d) * Day + time.value[1])
  ELSE Err("ParserError")

to_datetime(s) ==
  IF /\ Len(s) >= 11 /\ CharAt(s, 5) = "-" /\ CharAt(s, 8) = "-"
     /\ CharAt(s, 11) = "T"
     /\ is_digits(SubSeq(s, 1, 4)) /\ is_digits(SubSeq(s, 6, 7))
     /\ is_digits(SubSeq(s, 9, 10))
  THEN civil(to_int(SubSeq(s, 1, 4)), to_int(SubSeq(s, 6, 7)),
             to_int(SubSeq(s, 9, 10)), parse_time(SubSeq(s, 12, Len(s))))
  ELSE Err("ParserError")

(***************************************************************************)
(* The two schedule backends.  `primary` and `ergast` are what the remote  *)
(* sources answer to this call: [ok, rows] and [ok, season].               *)
(***************************************************************************)
_get_schedule(year, primary) ==
  IF primary.ok THEN Ok(EventSchedule(primary.rows, year))
  ELSE Err("primary backend error")

ConventionalSessions ==
  <<"Practice 1", "Practice 2", "Practice 3", "Qualifying", "Race">>

\* the date of a round: a ParserError gives NaT
date_or_NaT(parsed) == IF parsed.status = "ok" THEN parsed.value[1] ELSE NaT

\* the row appended for a round, given its date
conventional_row(rnd, date) ==
  Row(to_int(rnd.round), rnd.country, rnd.locality, "", date,
      rnd.raceName, "conventional", ConventionalSessions,
      << minus_days(floor_D(date), 2), minus_days(floor_D(date), 2),
         minus_days(floor_D(date), 1), minus_days(floor_D(date), 1),
         date >>,
      TRUE)

\* one pass of the loop over the season
ergast_row(rnd) ==
  conventional_row(rnd, date_or_NaT(to_datetime(rnd.date \o "T" \o rnd.time)))

\* _get_schedule_from_ergast, were it not to catch the ParserError
_get_schedule_from_ergast_raising(year, ergast) ==
  IF ~ergast.ok THEN Err("ergast backend error")
  ELSE IF \E i \in 1..Len(ergast.season) : ~is_digits(ergast.season[i].round)
       THEN Err("ValueError")
  ELSE IF \E i \in 1..Len(ergast.season) :
            to_datetime(ergast.season[i].date \o "T"
                          \o ergast.season[i].time).status # "ok"
       THEN Err("ParserError")
  ELSE Ok(EventSchedule(
            [i \in 1..Len(ergast.season) |-> ergast_row(ergast.season[i])],
            year))

_get_schedule_from_ergast(year, ergast) ==
  IF ~ergast.ok THEN Err("ergast backend error")
  ELSE IF \E i \in 1..Len(ergast.season) : ~is_digits(ergast.season[i].round)
       THEN Err("ValueError")
  ELSE Ok(EventSchedule(
            [i \in 1..Len(ergast.season) |-> ergast_row(ergast.season[i])],
            year))

(***************************************************************************)
(* get_event_schedule, get_event, get_testing_event.  Each yields the      *)
(* outcome of the call, the backends it invoked, in order, and the number  *)
(* of error messages it logged.                                            *)
(***************************************************************************)
FirstYear == 2018

\* datetime.datetime.now().year
CurrentYear == 2021

in_supported_range(year) == FirstYear <= year /\ year < CurrentYear + 1

\* one invocation of a backend: what the source answered, what came out
Invoked(name, response, outcome) ==
  [adapter |-> name, response |-> response, outcome |-> outcome]

\* the schedule of the only backend asked
From(name, response, outcome) ==
  [result |-> outcome, backend |-> <<Invoked(name, response, outcome)>>,
   logged |-> 0]

\* Fallback, were the primary backend's error raised to the caller
Fallback_raising(p, primary, year, ergast) == From("primary", primary, p)

\* the primary backend's schedule, or on its error the logged fallback
Fallback(p, primary, year, ergast) ==
  IF p.status = "ok" THEN From("primary", primary, p)
  ELSE [From("ergast", ergast, _get_schedule_from_ergast(year, ergast))
          EXCEPT !.backend = <<Invoked("primary", primary, p)>> \o @,
                 !.logged = 1]

Fetch(year, force_ergast, primary, ergast) ==
  IF ~in_supported_range(year) \/ force_ergast
  THEN From("ergast", ergast, _get_schedule_from_ergast(year, ergast))
  ELSE Fallback(_get_schedule(year, primary), primary, year, ergast)

\* without_testing, were the testing events left in
with_testing(schedule) == schedule

\* schedule[~schedule.is_testing()]
without_testing(schedule) == select(schedule, negate(is_testing(schedule)))

\* schedule[schedule.is_testing()]
only_testing(schedule) == select(schedule, is_testing(schedule))

\* the last step of get_event_schedule on what was fetched
Filtered(f, include_testing) ==
  IF f.result.status = "ok" /\ ~include_testing
  THEN [f EXCEPT !.result = Ok(without_testing(f.result.value[1]))]
  ELSE f

get_event_schedule(year, include_testing, force_ergast, primary, ergast) ==
  Filtered(Fetch(year, force_ergast, primary, ergast), include_testing)

\* gp: [isstr |-> TRUE, name |-> text] or [isstr |-> FALSE, num |-> number]
\* get_event on the schedule it fetched
event_of(schedule, gp) ==
  IF gp.isstr THEN get_event_by_name(schedule, gp.name)
  ELSE IF gp.num = 0 THEN Err("Cannot get testing event by round number!")
  ELSE get_event_by_round(schedule, gp.num)

\* the outcome f of fetching the schedule, then the lookup in it
Looked(f, gp) ==
  IF f.result.status # "ok" THEN f
  ELSE [f EXCEPT !.result = event_of(f.result.value[1], gp)]

get_event(year, gp, force_ergast, primary, ergast) ==
  Looked(get_event_schedule(year, FALSE, force_ergast, primary, ergast), gp)

\* the try block of get_testing_event on the testing rows
\* nth_row, without the assertion on the test number
nth_row_unasserted(row, test_number) ==
  IF row.status # "ok" THEN Err("Test event number does not exist") ELSE row

nth_row(row, test_number) ==
  IF ~(test_number >= 1) \/ row.status # "ok"
  THEN Err("Test event number does not exist")
  ELSE row

testing_row(schedule, test_number) ==
  nth_row(iloc(schedule, test_number - 1), test_number)

Tested(f, test_number) ==
  IF f.result.status # "ok" THEN f
  ELSE [f EXCEPT !.result =
          testing_row(only_testing(f.result.value[1]), test_number)]

get_testing_event(year, test_number, primary, ergast) ==
  Tested(get_event_schedule(year, TRUE, FALSE, primary, ergast), test_number)

(***************************************************************************)
(* Session identifiers.  A number is m / 10^k, or nan, or an infinity;     *)
(* an identifier is a number or a text.                                    *)
(***************************************************************************)
Finite(m, k) == [cls |-> "finite", m |-> m, k |-> k]

NaN == [cls |-> "nan", m |-> 0, k |-> 0]

Infinity == [cls |-> "inf", m |-> 0, k |-> 0]

NumId(n) == [isstr |-> FALSE, text |-> "", num |-> n]

StrId(s) == [isstr |-> TRUE, text |-> s, num |-> NaN]

RECURSIVE pow10(_)
pow10(k) == IF k = 0 THEN 1 ELSE 10 * pow10(k - 1)

\* float.is_integer and int(float)
is_integer(n) == n.cls = "finite" /\ n.m % pow10(n.k) = 0

int(n) == n.m \div pow10(n.k)

RECURSIVE strip(_)
strip(s) ==
  IF s # "" /\ CharAt(s, 1) = " " THEN strip(Rest(s))
  ELSE IF s # "" /\ CharAt(s, Len(s)) = " "
       THEN strip(SubSeq(s, 1, Len(s) - 1))
       ELSE s

\* float(text): blanks around it, a sign, then nan, inf, infinity (any
\* case) or decimal digits with at most one point; else ValueError
parse_float(s) ==
  LET t == strip(s)
      signed == t # "" /\ CharAt(t, 1) \in {"+", "-"}
      sign == IF signed /\ CharAt(t, 1) = "-" THEN -1 ELSE 1
      body == IF signed THEN Rest(t) ELSE t
      dot == IndexIn(body, ".")
      whole == IF dot = 0 THEN body ELSE SubSeq(body, 1, dot - 1)
      frac == IF dot = 0 THEN "" ELSE SubSeq(body, dot + 1, Len(body))
  IN IF casefold(body) = "nan" THEN Ok(NaN)
     ELSE IF casefold(body) \in {"inf", "infinity"} THEN Ok(Infinity)
     ELSE IF /\ whole \o frac # ""
             /\ whole = "" \/ is_digits(whole)
             /\ frac = "" \/ is_digits(frac)
          THEN Ok(Finite(sign * to_int(whole \o frac), Len(frac)))
          ELSE Err("ValueError")

\* float(identifier)
float(identifier) ==
  IF identifier.isstr THEN parse_float(identifier.text) ELSE Ok(identifier.num)

(***************************************************************************)
(* Event.get_session_name, get_session_date, get_session.                  *)
(***************************************************************************)
_SESSION_TYPE_ABBREVIATIONS ==
  << [abbr |-> "R", name |-> "Race"],
     [abbr |-> "Q", name |-> "Qualifying"],
     [abbr |-> "SQ", name |-> "Sprint Qualifying"],
     [abbr |-> "FP1", name |-> "Practice 1"],
     [abbr |-> "FP2", name |-> "Practice 2"],
     [abbr |-> "FP3", name |-> "Practice 3"] >>

Abbreviations == DOMAIN _SESSION_TYPE_ABBREVIATIONS

\* the name or abbreviation lookup: the full names first, in table order,
\* then the abbreviations
resolve_name(text) ==
  LET T == _SESSION_TYPE_ABBREVIATIONS
      full == {i \in Abbreviations : casefold(text) = casefold(T[i].name)}
      abbr == {i \in Abbreviations : upper(text) = T[i].abbr}
      first(S) == CHOOSE i \in S : \A j \in S : i <= j
  IN IF full # {} THEN Ok(T[first(full)].name)
     ELSE IF abbr # {} THEN Ok(T[first(abbr)].name)
     ELSE Err("Invalid session type")

\* session_name in self.values
in_values(self, session_name) == session_name \in text_values(self)

\* a resolved name r must be among the event's values
checked(self, r) ==
  IF r.status # "ok" THEN r
  ELSE IF ~in_values(self, r.value[1])
       THEN Err("No session of type for this event")
       ELSE r

by_name(self, text) == checked(self, resolve_name(text))

\* by_number, were an empty slot not looked for
by_number_unchecked(self, num) ==
  IF is_integer(num) /\ int(num) \in {1, 2, 3, 4, 5}
  THEN Ok(session(self, int(num)))
  ELSE Err("Invalid session type")

by_number(self, num) ==
  IF is_integer(num) /\ int(num) \in {1, 2, 3, 4, 5}
  THEN IF session(self, int(num)) = ""
       THEN Err("Session number does not exist for this event")
       ELSE Ok(session(self, int(num)))
  ELSE Err("Invalid session type")

\* the branch taken on the outcome num of float(identifier)
resolved(self, identifier, num) ==
  IF num.status # "ok" THEN by_name(self, identifier.text)
  ELSE by_number(self, num.value[1])

get_session_name(self, identifier) ==
  resolved(self, identifier, float(identifier))

\* mask.idxmax(): the first of session1..session5 that holds the name
first_slot(self, session_name) ==
  CHOOSE i \in 1..5 :
    /\ session(self, i) = session_name
    /\ \A j \in 1..(i - 1) : session(self, j) # session_name

\* the date of the resolved name r
date_of(self, r) ==
  IF r.status # "ok" THEN r
  ELSE IF ~(\E i \in 1..5 : session(self, i) = r.value[1])
       THEN Err("Session type does not exist for this event")
       ELSE Ok(session_date(self, first_slot(self, r.value[1])))

get_session_date(self, identifier) ==
  date_of(self, get_session_name(self, identifier))

\* Session(event=self, session_name=session_name)
Session(self, session_name) == [event |-> self, session_name |-> session_name]

\* resolved_again, were a name taken without asking get_session_name
resolved_again_unasked(self, identifier, num) ==
  IF num.status # "ok" THEN resolve_name(identifier.text)
  ELSE by_number(self, num.value[1])

\* the resolution that get_session repeats before it builds the session
resolved_again(self, identifier, num) ==
  IF num.status # "ok"
  THEN checked(self, get_session_name(self, identifier))
  ELSE by_number(self, num.value[1])

\* the session built for the resolved name r
built(self, r) ==
  IF r.status # "ok" THEN [result |-> r, constructed |-> <<>>]
  ELSE [result |-> Ok(Session(self, r.value[1])),
        constructed |-> <<Session(self, r.value[1])>>]

get_session(self, identifier) ==
  built(self, resolved_again(self, identifier, float(identifier)))

get_race(self) == get_session(self, StrId("R"))

get_quali(self) == get_session(self, StrId("Q"))

get_sprint(self) == get_session(self, StrId("SQ"))

\* f'FP{number}' of a number that is no negative integer
get_practice(self, number) == get_session(self, StrId("FP" \o str(number)))

(***************************************************************************)
(* The inputs of the model.                                                *)
(***************************************************************************)
\* most rows of a primary feed, most rounds of an ergast season
MaxRows == 3

MaxRounds == 2

T(day, hour) == day * Day + hour * 3600

TestingSessions == <<"Practice 1", "Practice 2", "Practice 3", "", "">>

SprintSessions ==
  <<"Practice 1", "Qualifying", "Practice 2", "Sprint Qualifying", "Race">>

\* Rows a primary feed may hold.  No column of the feed is validated, so
\* the last row is as acceptable to the code as the others: its second
\* session repeats the first one's name, it has no race session, and its
\* event name reads like a session name.
FeedRows ==
  << Row(0, "Spain", "Barcelona", "", T(18680, 9), "Pre-Season Track Session",
         "testing", TestingSessions,
         <<T(18678, 9), T(18679, 9), T(18680, 9), NaT, NaT>>, FALSE),
     Row(0, "Bahrain", "Sakhir", "FORMULA 1 PRE-SEASON TEST 2021",
         T(18700, 7), "Pre-Season Test", "testing", TestingSessions,
         <<T(18698, 7), T(18699, 7), T(18700, 7), NaT, NaT>>, TRUE),
     Row(1, "Bahrain", "Sakhir", "FORMULA 1 BAHRAIN GRAND PRIX 2021",
         T(18714, 15), "Bahrain Grand Prix", "conventional",
         ConventionalSessions,
         <<T(18712, 11), T(18712, 15), T(18713, 12), T(18713, 15),
           T(18714, 15)>>, TRUE),
     Row(2, "Italy", "Imola", "FORMULA 1 IMOLA GRAND PRIX 2021",
         T(18735, 13), "Emilia Romagna Grand Prix", "conventional",
         ConventionalSessions,
         <<T(18733, 9), T(18733, 12), T(18734, 9), T(18734, 12),
           T(18735, 13)>>, TRUE),
     Row(10, "UK", "Silverstone", "FORMULA 1 BRITISH GRAND PRIX 2021",
         T(18826, 14), "British Grand Prix", "sprint", SprintSessions,
         <<T(18824, 13), T(18824, 17), T(18825, 11), T(18825, 15),
           T(18826, 14)>>, TRUE),
     Row(11, "Monaco", "Monte Carlo", "", T(18850, 13), "Race", "conventional",
         <<"Practice 1", "Practice 1", "Qualifying", "", "">>,
         <<T(18848, 9), T(18848, 13), T(18849, 13), NaT, NaT>>, FALSE) >>

\* Rounds an ergast season may hold: with date and time, without the time,
\* with a text that is no date, and with neither
ErgastRounds ==
  << [round |-> "1", country |-> "Bahrain", locality |-> "Sakhir",
      raceName |-> "Bahrain Grand Prix", date |-> "2021-03-28",
      time |-> "15:00:00Z"],
     [round |-> "2", country |-> "Italy", locality |-> "Imola",
      raceName |-> "Emilia Romagna Grand Prix", date |-> "2021-04-18",
      time |-> ""],
     [round |-> "3", country |-> "Portugal", locality |-> "Portimao",
      raceName |-> "Portuguese Grand Prix", date |-> "TBC",
      time |-> "14:00:00Z"],
     [round |-> "4", country |-> "Spain", locality |-> "Montmelo",
      raceName |-> "Spanish Grand Prix", date |-> "", time |-> ""] >>

\* the increasing selections of at most n positions of the sequence pool
RECURSIVE Selections(_, _, _)
Selections(pool, from, n) ==
  IF n = 0 \/ from > Len(pool) THEN {<<>>}
  ELSE Selections(pool, from + 1, n)
       \cup {<<pool[from]>> \o rest : rest \in Selections(pool, from + 1, n - 1)}

PrimaryResponses ==
  {[ok |-> FALSE, rows |-> <<>>]}
  \cup {[ok |-> TRUE, rows |-> rows] : rows \in Selections(FeedRows, 1, MaxRows)}

ErgastResponses ==
  {[ok |-> FALSE, season |-> <<>>]}
  \cup {[ok |-> TRUE, season |-> season] :
          season \in Selections(ErgastRounds, 1, MaxRounds)}

Years == {FirstYear - 1, FirstYear, CurrentYear, CurrentYear + 1}

\* The response of a backend that a call does not reach is no input of
\* the call: such a backend is given as down.
PrimaryDown == [ok |-> FALSE, rows |-> <<>>]

ErgastDown == [ok |-> FALSE, season |-> <<>>]

PrimaryReached(year, force_ergast) ==
  IF in_supported_range(year) /\ ~force_ergast
  THEN PrimaryResponses ELSE {PrimaryDown}

ErgastReached(primary) ==
  IF primary.ok THEN {ErgastDown} ELSE ErgastResponses

Rounds == {0, 1, 2, 10, 12}

Names == {"bahrain", "Sakhir", "imola", "77", ""}

TestNumbers == (0 - 2)..(MaxRows + 1)

GpByName(name) == [isstr |-> TRUE, name |-> name, num |-> 0]

GpByRound(round) == [isstr |-> FALSE, name |-> "", num |-> round]

Gps == {GpByName(n) : n \in Names} \cup {GpByRound(r) : r \in Rounds}

SessionNames == {_SESSION_TYPE_ABBREVIATIONS[i].name : i \in Abbreviations}

SessionAbbreviations ==
  {_SESSION_TYPE_ABBREVIATIONS[i].abbr : i \in Abbreviations}

Numbers ==
  {Finite(n, 0) : n \in (0 - 1)..6}
  \cup {Finite(25, 1), Finite(30, 1), NaN, Infinity}

Texts ==
  SessionNames \cup SessionAbbreviations
  \cup {casefold(n) : n \in SessionNames \cup SessionAbbreviations}
  \cup {upper(n) : n \in SessionNames}
  \cup {"praCtice 1", "FP4", "Sprint", "", "3", " 2 ", "6", "0", "2.5",
        "4.0", "nan", "-inf"}

\* the numbers get_practice is called with
PracticeNumbers == 0..4

Identifiers == {NumId(n) : n \in Numbers} \cup {StrId(t) : t \in Texts}

(***************************************************************************)
(* The state: what a caller holds (a schedule, then an event picked from   *)
(* it, as get_event and get_session do), its last call with the receiver   *)
(* and the arguments, the outcome, the backends the call invoked, the      *)
(* error messages it logged and the sessions it constructed.  The caller   *)
(* makes one call at a time: it looks at the outcome, then goes on with    *)
(* what it holds (Keep) or lets go of it (Discard).                        *)
(***************************************************************************)
VARIABLES schedule, event, call, result, backend, logged, constructed

vars == <<schedule, event, call, result, backend, logged, constructed>>

NoCall == [op |-> "none"]

NoResult == [status |-> "none", error |-> "", value |-> <<>>]

Init ==
  /\ schedule = <<>>
  /\ event = <<>>
  /\ call = NoCall
  /\ result = NoResult
  /\ backend = <<>>
  /\ logged = 0
  /\ constructed = <<>>

\* no call is pending an answer the caller has not looked at
Fresh == call = NoCall

Idle == Fresh /\ schedule = <<>> /\ event = <<>>

\* what the caller holds after a call that yields a schedule or an event
Returned(r) == IF r.status = "ok" THEN r.value ELSE <<>>

GetEventSchedule ==
  /\ Idle
  /\ \E year \in Years, include_testing \in BOOLEAN, force_ergast \in BOOLEAN :
     \E primary \in PrimaryReached(year, force_ergast) :
     \E ergast \in ErgastReached(primary) :
     \E f \in {get_event_schedule(year, include_testing, force_ergast,
                                   primary, ergast)} :
       /\ call' = [op |-> "get_event_schedule", year |-> year,
                   include_testing |-> include_testing,
                   force_ergast |-> force_ergast]
       /\ result' = f.result
       /\ backend' = f.backend
       /\ logged' = f.logged
       /\ schedule' = Returned(f.result)
       /\ UNCHANGED <<event, constructed>>

GetEvent ==
  /\ Idle
  /\ \E year \in Years, gp \in Gps, force_ergast \in BOOLEAN :
     \E primary \in PrimaryReached(year, force_ergast) :
     \E ergast \in ErgastReached(primary) :
     \E f \in {get_event(year, gp, force_ergast, primary, ergast)} :
       /\ call' = [op |-> "get_event", year |-> year, gp |-> gp,
                   force_ergast |-> force_ergast]
       /\ result' = f.result
       /\ backend' = f.backend
       /\ logged' = f.logged
       /\ event' = Returned(f.result)
       /\ UNCHANGED <<schedule, constructed>>

GetTestingEvent ==
  /\ Idle
  /\ \E year \in Years, test_number \in TestNumbers :
     \E primary \in PrimaryReached(year, FALSE) :
     \E ergast \in ErgastReached(primary) :
     \E f \in {get_testing_event(year, test_number, primary, ergast)} :
       /\ call' = [op |-> "get_testing_event", year |-> year,
                   test_number |-> test_number]
       /\ result' = f.result
       /\ backend' = f.backend
       /\ logged' = f.logged
       /\ event' = Returned(f.result)
       /\ UNCHANGED <<schedule, constructed>>

GetEventByRound ==
  /\ Fresh /\ schedule # <<>>
  /\ \E round \in Rounds :
    /\ call' = [op |-> "get_event_by_round", self |-> schedule[1],
                round |-> round]
    /\ result' = get_event_by_round(schedule[1], round)
    /\ event' = Returned(result')
    /\ schedule' = <<>>
    /\ backend' = <<>>
    /\ logged' = 0
    /\ UNCHANGED constructed

GetEventByName ==
  /\ Fresh /\ schedule # <<>>
  /\ \E name \in Names :
    /\ call' = [op |-> "get_event_by_name", self |-> schedule[1],
                name |-> name]
    /\ result' = get_event_by_name(schedule[1], name)
    /\ event' = Returned(result')
    /\ schedule' = <<>>
    /\ backend' = <<>>
    /\ logged' = 0
    /\ UNCHANGED constructed

GetSessionName ==
  /\ Fresh /\ event # <<>>
  /\ \E identifier \in Identifiers :
    /\ call' = [op |-> "get_session_name", self |-> event[1],
                identifier |-> identifier]
    /\ result' = get_session_name(event[1], identifier)
    /\ backend' = <<>>
    /\ logged' = 0
    /\ constructed' = <<>>
    /\ UNCHANGED <<schedule, event>>

GetSessionDate ==
  /\ Fresh /\ event # <<>>
  /\ \E identifier \in Identifiers :
    /\ call' = [op |-> "get_session_date", self |-> event[1],
                identifier |-> identifier]
    /\ result' = get_session_date(event[1], identifier)
    /\ backend' = <<>>
    /\ logged' = 0
    /\ constructed' = <<>>
    /\ UNCHANGED <<schedule, event>>

GetSession ==
  /\ Fresh /\ event # <<>>
  /\ \E identifier \in Identifiers :
     \E g \in {get_session(event[1], identifier)} :
       /\ call' = [op |-> "get_session", self |-> event[1],
                   identifier |-> identifier]
       /\ result' = g.result
       /\ constructed' = g.constructed
       /\ backend' = <<>>
       /\ logged' = 0
       /\ UNCHANGED <<schedule, event>>

GetRace ==
  /\ Fresh /\ event # <<>>
  /\ \E g \in {get_race(event[1])} :
       /\ call' = [op |-> "get_race", self |-> event[1]]
       /\ result' = g.result
       /\ constructed' = g.constructed
       /\ backend' = <<>>
       /\ logged' = 0
       /\ UNCHANGED <<schedule, event>>

GetQuali ==
  /\ Fresh /\ event # <<>>
  /\ \E g \in {get_quali(event[1])} :
       /\ call' = [op |-> "get_quali", self |-> event[1]]
       /\ result' = g.result
       /\ constructed' = g.constructed
       /\ backend' = <<>>
       /\ logged' = 0
       /\ UNCHANGED <<schedule, event>>

GetSprint ==
  /\ Fresh /\ event # <<>>
  /\ \E g \in {get_sprint(event[1])} :
       /\ call' = [op |-> "get_sprint", self |-> event[1]]
       /\ result' = g.result
       /\ constructed' = g.constructed
       /\ backend' = <<>>
       /\ logged' = 0
       /\ UNCHANGED <<schedule, event>>

GetPractice ==
  /\ Fresh /\ event # <<>>
  /\ \E number \in PracticeNumbers :
     \E g \in {get_practice(event[1], number)} :
       /\ call' = [op |-> "get_practice", self |-> event[1],
                   number |-> number]
       /\ result' = g.result
       /\ constructed' = g.constructed
       /\ backend' = <<>>
       /\ logged' = 0
       /\ UNCHANGED <<schedule, event>>

\* the caller has looked at the outcome and goes on with what it holds
Keep ==
  /\ ~Fresh
  /\ schedule # <<>> \/ event # <<>>
  /\ call' = NoCall
  /\ result' = NoResult
  /\ backend' = <<>>
  /\ logged' = 0
  /\ constructed' = <<>>
  /\ UNCHANGED <<schedule, event>>

\* the caller lets go of what it holds and starts over
Discard ==
  /\ ~Idle
  /\ schedule' = <<>>
  /\ event' = <<>>
  /\ call' = NoCall
  /\ result' = NoResult
  /\ backend' = <<>>
  /\ logged' = 0
  /\ constructed' = <<>>

Next ==
  \/ GetEventSchedule
  \/ GetEvent
  \/ GetTestingEvent
  \/ GetEventByRound
  \/ GetEventByName
  \/ GetSessionName
  \/ GetSessionDate
  \/ GetSession
  \/ GetRace
  \/ GetQuali
  \/ GetSprint
  \/ GetPractice
  \/ Keep
  \/ Discard

Spec == Init /\ [][Next]_vars

(***************************************************************************)
(* Properties.                                                             *)
(***************************************************************************)
Rows(s) == {s.data[i] : i \in 1..Len(s.data)}

IsTestingRow(row) == row.event_format = "testing"

IsRaceRow(row) == ~IsTestingRow(row)

\* the backends a call invoked, by name
Tried(name) == \E i \in 1..Len(backend) : backend[i].adapter = name

Failed(name) ==
  \E i \in 1..Len(backend) :
    backend[i].adapter = name /\ backend[i].outcome.status = "error"

\* what the last backend invoked gave
Fetched == backend[Len(backend)].outcome

\* C1: get_event_schedule tries the primary backend if and only if the
\* year is in the supported range and ergast is not forced; it uses ergast
\* exactly when the year is out of range, ergast is forced or the primary
\* backend raised; an error of the primary backend is logged and never
\* raised to the caller, who gets what ergast gives, its error included.
C1_Orchestration ==
  call.op = "get_event_schedule" =>
    /\ Tried("primary") <=>
         (call.year \in FirstYear..CurrentYear /\ ~call.force_ergast)
    /\ Tried("ergast") <=>
         \/ call.year \notin FirstYear..CurrentYear
         \/ call.force_ergast
         \/ Failed("primary")
    /\ Tried("primary") => backend[1].adapter = "primary"
    /\ result.error # "primary backend error"
    /\ Tried("ergast") => result = Fetched
    /\ ~Tried("ergast") => result.status = "ok"
    /\ logged = IF Failed("primary") THEN 1 ELSE 0

\* C1 happens: the primary backend failed and the caller has the schedule
\* that ergast gave
C1_Witness ==
  /\ call.op = "get_event_schedule"
  /\ Failed("primary")
  /\ result.status = "ok"
  /\ Len(result.value[1].data) > 0

\* C2: get_event_by_round(r) raises "Invalid round" when no row has the
\* round number r, and else returns the first row, in table order, that
\* has it.
C2_ByRound ==
  call.op = "get_event_by_round" =>
    LET hits == {i \in 1..Len(call.self.data) :
                   call.self.data[i].round_number = call.round}
    IN IF hits = {} THEN result = Err("Invalid round")
       ELSE result = Ok(call.self.data[Min(hits)])

\* C2 happens: several rows have the round number, the first is returned
C2_Witness ==
  /\ call.op = "get_event_by_round"
  /\ Cardinality({i \in 1..Len(call.self.data) :
                    call.self.data[i].round_number = call.round}) > 1
  /\ result.status = "ok"
  /\ result.value[1] # call.self.data[Len(call.self.data)]

\* C3, as claimed: on a schedule that is not empty get_event_by_name
\* returns one of its events for every name, also on the schedule without
\* testing events that get_event searches.
C3_AlwaysAnEvent ==
  /\ call.op = "get_event_by_name" /\ Len(call.self.data) > 0 =>
       result.status = "ok" /\ result.value[1] \in Rows(call.self)
  /\ ( /\ call.op = "get_event" /\ call.gp.isstr
       /\ Fetched.status = "ok"
       /\ \E row \in Rows(Fetched.value[1]) : IsRaceRow(row) ) =>
       result.status = "ok" /\ result.value[1] \in Rows(Fetched.value[1])

\* the first position of the schedule s whose event compares best to name
BestPosition(s, name) ==
  LET score == [i \in 1..Len(s.data) |-> event_ratio(s, s.data[i], name)]
  IN Min({i \in 1..Len(s.data) : \A j \in 1..Len(s.data) : score[j] <= score[i]})

\* C4, as claimed: get_event_by_name returns the row with the greatest
\* ratio over its comparison strings, and of several such rows the first
\* in table order.
C4_BestMatch ==
  call.op = "get_event_by_name" /\ Len(call.self.data) > 0 =>
    result = Ok(call.self.data[BestPosition(call.self, call.name)])

\* the texts among the identifiers that float() reads as a number
NumericTexts ==
  [t \in {"3", " 2 ", "6", "0", "2.5", "4.0", "nan", "-inf"} |->
     CASE t = "3" -> Finite(3, 0) [] t = " 2 " -> Finite(2, 0)
       [] t = "6" -> Finite(6, 0) [] t = "0" -> Finite(0, 0)
       [] t = "2.5" -> Finite(25, 1) [] t = "4.0" -> Finite(40, 1)
       [] t = "nan" -> NaN [] t = "-inf" -> Infinity]

IsNumeric(identifier) ==
  ~identifier.isstr \/ identifier.text \in DOMAIN NumericTexts

Denoted(identifier) ==
  IF identifier.isstr THEN NumericTexts[identifier.text] ELSE identifier.num

\* the whole numbers 1..5 that the number n equals (none or one)
Slots(n) == {w \in 1..5 : n.cls = "finite" /\ n.m = w * pow10(n.k)}

Sessions(ev) ==
  {ev.session1, ev.session2, ev.session3, ev.session4, ev.session5}

\* the session names that the text names, in full or abbreviated
Named(text) ==
  {_SESSION_TYPE_ABBREVIATIONS[i].name : i \in
     {j \in Abbreviations :
        \/ casefold(text) = casefold(_SESSION_TYPE_ABBREVIATIONS[j].name)
        \/ upper(text) = _SESSION_TYPE_ABBREVIATIONS[j].abbr}}

\* C5, as claimed: get_session_name of a text that is no number raises
\* "Invalid session type" when the text names no session; when it names
\* one, it returns that name if it is one of session1..session5 of the
\* event and raises "No session of type" otherwise, whatever the other
\* columns hold.
C5_ByName ==
  call.op = "get_session_name" /\ ~IsNumeric(call.identifier) =>
    IF Named(call.identifier.text) = {}
    THEN result = Err("Invalid session type")
    ELSE IF Named(call.identifier.text) \subseteq Sessions(call.self)
         THEN result.status = "ok"
              /\ Named(call.identifier.text) = {result.value[1]}
         ELSE result = Err("No session of type for this event")

\* C6: get_session_name and get_session of a number, given as a number or
\* as a numeric text, raise "Invalid session type" unless it is a whole
\* number in 1..5; for n in 1..5 they raise "Session number does not
\* exist" when session{n} is empty and else resolve to what it holds.
C6_ByNumber ==
  call.op \in {"get_session_name", "get_session"}
    /\ IsNumeric(call.identifier) =>
    \/ /\ Slots(Denoted(call.identifier)) = {}
       /\ result = Err("Invalid session type")
    \/ \E n \in Slots(Denoted(call.identifier)) :
         IF session(call.self, n) = ""
         THEN result = Err("Session number does not exist for this event")
         ELSE IF call.op = "get_session_name"
              THEN result = Ok(session(call.self, n))
              ELSE result = Ok(Session(call.self, session(call.self, n)))

\* C6 happens: a numeric text picks a session, and a number picks an
\* empty one
C6_Witness ==
  \/ /\ call.op = "get_session_name"
     /\ call.identifier = StrId("4.0")
     /\ result = Ok("Qualifying")
  \/ /\ call.op = "get_session"
     /\ call.identifier = NumId(Finite(4, 0))
     /\ result = Err("Session number does not exist for this event")

\* the identifier is the number i, or session{i}'s name in any case, or
\* its abbreviation
RefersTo(identifier, ev, i) ==
  IF ~identifier.isstr THEN identifier.num = Finite(i, 0)
  ELSE \/ casefold(identifier.text) = casefold(session(ev, i))
       \/ \E j \in Abbreviations :
            /\ _SESSION_TYPE_ABBREVIATIONS[j].name = session(ev, i)
            /\ identifier.text = _SESSION_TYPE_ABBREVIATIONS[j].abbr

\* C7, as claimed: for every slot i whose session{i} is a session name,
\* get_session_date returns session{i}_date for the number i, for the name
\* in any case and for the abbreviation.
C7_SessionDate ==
  call.op = "get_session_date" =>
    \A i \in 1..5 :
      session(call.self, i) \in SessionNames
        /\ RefersTo(call.identifier, call.self, i) =>
        result = Ok(session_date(call.self, i))

\* C8: get_event never returns a testing event: on the fetched schedule
\* the round number 0 is refused with "Cannot get testing event by round
\* number!", and every event it returns for another round number or for a
\* name has an event format other than "testing".
C8_NoTestingEvent ==
  call.op = "get_event" =>
    /\ result.status = "ok" => ~IsTestingRow(result.value[1])
    /\ ~call.gp.isstr /\ call.gp.num = 0 =>
         /\ result.status = "error"
         /\ Fetched.status = "ok" =>
              result = Err("Cannot get testing event by round number!")

\* C8 happens: the season has testing events, one of which compares best
\* to the name, and get_event returns a race event; and round 0 is asked
\* of a season with a testing event
C8_Witness ==
  /\ call.op = "get_event"
  /\ Fetched.status = "ok"
  /\ \E row \in Rows(Fetched.value[1]) : IsTestingRow(row)
  /\ \/ /\ call.gp.isstr /\ call.gp.name = "Sakhir"
        /\ Fetched.value[1].data[1].location = "Sakhir"
        /\ result.status = "ok"
     \/ ~call.gp.isstr /\ call.gp.num = 0

\* C9: on the fetched schedule get_testing_event(year, n) returns the n-th
\* row, in table order, of those with the event format "testing" when
\* 1 <= n <= their number, and raises "Test event number does not exist"
\* for every other n, n < 1 included.
C9_TestingEvent ==
  call.op = "get_testing_event" /\ Fetched.status = "ok" =>
    LET tests == SelectSeq(Fetched.value[1].data, IsTestingRow)
    IN IF 1 <= call.test_number /\ call.test_number <= Len(tests)
       THEN result = Ok(tests[call.test_number])
       ELSE result = Err("Test event number does not exist")

\* C9 happens: the second of two testing events is returned, and n = 0 is
\* refused though there are testing events
C9_Witness ==
  /\ call.op = "get_testing_event"
  /\ Fetched.status = "ok"
  /\ Len(SelectSeq(Fetched.value[1].data, IsTestingRow)) = 2
  /\ \/ call.test_number = 2 /\ result.status = "ok"
     \/ call.test_number = 0 /\ result.status = "error"

\* the dates among the ergast rounds that are dates
Dates == {"2021-03-28", "2021-04-18"}

HasDate(rnd) == rnd.date \in Dates

Dated(row) == row.event_date # NaT

RaceDateTime ==
  [d \in Dates |-> IF d = "2021-03-28" THEN 1616943600 ELSE 1618704000]

\* C11: in the ergast schedule every round with a race date-time d has
\* session1_date and session2_date at the start of d's day minus 2 days,
\* session3_date and session4_date at the start of d's day minus 1 day,
\* session5_date and event_date at d exactly, the sessions Practice 1,
\* Practice 2, Practice 3, Qualifying, Race and the format "conventional";
\* for 2021-03-28 15:00:00 these are 2021-03-26 00:00:00 and
\* 2021-03-27 00:00:00.
C11_SessionDates ==
  \A b \in 1..Len(backend) :
    backend[b].adapter = "ergast" /\ backend[b].outcome.status = "ok" =>
      \A i \in 1..Len(backend[b].response.season) :
        HasDate(backend[b].response.season[i]) =>
          LET d == RaceDateTime[backend[b].response.season[i].date]
              row == backend[b].outcome.value[1].data[i]
          IN /\ row.event_date = d
             /\ row.session5_date = d
             /\ row.session1_date = (d - (d % 86400)) - 2 * 86400
             /\ row.session2_date = row.session1_date
             /\ row.session3_date = (d - (d % 86400)) - 86400
             /\ row.session4_date = row.session3_date
             /\ d = 1616943600 =>
                  /\ row.session1_date = 1616716800
                  /\ row.session3_date = 1616803200
             /\ << row.session1, row.session2, row.session3, row.session4,
                   row.session5 >> =
                  << "Practice 1", "Practice 2", "Practice 3", "Qualifying",
                     "Race" >>
             /\ row.event_format = "conventional"

\* C11 happens: an ergast round with a race in the afternoon has become a
\* row whose practice dates are at midnight
C11_Witness ==
  \E b \in 1..Len(backend) :
    /\ backend[b].adapter = "ergast"
    /\ backend[b].outcome.status = "ok"
    /\ \E i \in 1..Len(backend[b].response.season) :
         /\ backend[b].response.season[i].time = "15:00:00Z"
         /\ backend[b].outcome.value[1].data[i].event_date % 86400 # 0
         /\ backend[b].outcome.value[1].data[i].session1_date % 86400 = 0

\* the calls that build a session
SessionCalls ==
  {"get_session", "get_race", "get_quali", "get_sprint", "get_practice"}

\* the identifier that a call that builds a session stands for
Asked ==
  CASE call.op = "get_session" -> call.identifier
    [] call.op = "get_race" -> StrId("R")
    [] call.op = "get_quali" -> StrId("Q")
    [] call.op = "get_sprint" -> StrId("SQ")
    [] call.op = "get_practice" ->
         StrId(CASE call.number = 0 -> "FP0" [] call.number = 1 -> "FP1"
                 [] call.number = 2 -> "FP2" [] call.number = 3 -> "FP3"
                 [] call.number = 4 -> "FP4")

\* the call did what get_session_name gives for the identifier: the same
\* error and no session, or one session of this event with that name
Agrees(self, named) ==
  IF named.status = "error"
  THEN result = named /\ constructed = <<>>
  ELSE /\ constructed = <<[event |-> self, session_name |-> named.value[1]]>>
       /\ result = Ok(constructed[1])

\* C12: get_session fails as get_session_name fails, with the same error,
\* and otherwise builds exactly one session, of this event and with the
\* name get_session_name returns; get_race, get_quali, get_sprint and
\* get_practice(n) do what get_session does for "R", "Q", "SQ" and "FP{n}".
C12_SessionAgrees ==
  call.op \in SessionCalls =>
    /\ Agrees(call.self, get_session_name(call.self, Asked))
    /\ result.status = "error" => result.error \in ValueErrors
    /\ result = get_session(call.self, Asked).result
    /\ constructed = get_session(call.self, Asked).constructed

\* C12 happens: get_session has built a session for a name in another
\* case, has failed for a session the event does not have, and
\* get_practice has built the third practice
C12_Witness ==
  \/ /\ call.op = "get_session"
     /\ call.identifier = StrId("qualifying")
     /\ Len(constructed) = 1
     /\ constructed[1].session_name = "Qualifying"
  \/ /\ call.op = "get_session"
     /\ call.identifier = StrId("SQ")
     /\ result = Err("No session of type for this event")
  \/ /\ call.op = "get_practice"
     /\ call.number = 3
     /\ Len(constructed) = 1
     /\ constructed[1].session_name = "Practice 3"

\* C13: of what the backend gave, get_event_schedule with include_testing
\* false returns the rows whose event format is not "testing", all of
\* them, in their order, with their values and with the year; with
\* include_testing true it returns what the backend gave.
C13_TestingFilter ==
  call.op = "get_event_schedule" /\ Fetched.status = "ok" =>
    /\ result.status = "ok"
    /\ result.value[1].year = Fetched.value[1].year
    /\ result.value[1].year = call.year
    /\ IF call.include_testing
       THEN result = Fetched
       ELSE result.value[1].data = SelectSeq(Fetched.value[1].data, IsRaceRow)

\* C13 happens: a testing event stood before a race event, and the
\* schedule returned without testing events begins with the race event
C13_Witness ==
  /\ call.op = "get_event_schedule"
  /\ ~call.include_testing
  /\ Fetched.status = "ok"
  /\ Len(Fetched.value[1].data) > 1
  /\ IsTestingRow(Fetched.value[1].data[1])
  /\ result.status = "ok"
  /\ Len(result.value[1].data) > 0
  /\ Len(result.value[1].data) < Len(Fetched.value[1].data)
  /\ result.value[1].data[1] \in Rows(Fetched.value[1])

====
